---- MODULE Spec2Model ----
(***************************************************************************)
(* Model of the DCF networking engine of src/ipx/dcf_doom_integration.cpp: *)
(* the engine object (DCFNetworking), its two background threads           *)
(* (PollLoop, RedundancyLoop), the host entry points (LaunchDOOM, NetISR)  *)
(* and the transport the delivery loop hands frames to.                    *)
(*                                                                         *)
(* Time is kept relative: every time point the code stores is represented  *)
(* by its age (steady_clock::now() minus the stored value, in seconds),    *)
(* saturated above the values the code's comparisons can tell apart.  The  *)
(* stored time points are read by RedundancyLoop only, once per pass, so   *)
(* time advances where that loop sleeps: sleep_for returns after at least  *)
(* the requested duration.                                                 *)
(***************************************************************************)
EXTENDS Integers, Sequences, FiniteSets, Bags, TLC

\* ------------------------------------------------------------------ bounds
MaxSends == 1        \* CMD_SEND requests the host issues
MaxHeartbeats == 3   \* heartbeats RedundancyLoop sends
QueueCapacity == 2   \* the capacity the queue-full claim speaks of
MaxInQueue == 3      \* strings an inbound queue holds when Receive is tried

\* ------------------------------------------------------- program constants
HEARTBEAT_TIMEOUT == 10
HEARTBEAT_INTERVAL == 5
HEARTBEAT == <<72, 69, 65, 82, 84, 66, 69, 65, 84>>
CMD_SEND == "CMD_SEND"
CMD_GET == "CMD_GET"
NoCommand == "none"

\* ------------------------------------------------------------------ inputs
ConsolePlayers == {1}
\* what the host sends, and what peers send to this node: <<data, node>>
Packets == {<< <<7, 8>>, 2 >>}
AgeCap == HEARTBEAT_TIMEOUT + 1
\* how long sleep_for(5 s) may take: on time, a second late, past the timeout
SleepTimes == {HEARTBEAT_INTERVAL, HEARTBEAT_INTERVAL + 1, HEARTBEAT_TIMEOUT + 1}

\* ------------------------------------------------- string conversions
DigitChar == <<"0", "1", "2", "3", "4", "5", "6", "7", "8", "9">>

RECURSIVE Digits(_)
Digits(n) == IF n < 10 THEN <<DigitChar[n + 1]>>
             ELSE Digits(n \div 10) \o <<DigitChar[(n % 10) + 1]>>

\* std::to_string(int)
to_string(n) == IF n < 0 THEN <<"-">> \o Digits(0 - n) ELSE Digits(n)

DigitValue(c) == CHOOSE d \in 0..9 : DigitChar[d + 1] = c

IsDigit(c) == \E d \in 0..9 : DigitChar[d + 1] = c

RECURSIVE StoiDigits(_, _)
StoiDigits(s, acc) ==
    IF s = <<>> \/ ~IsDigit(Head(s)) THEN acc
    ELSE StoiDigits(Tail(s), 10 * acc + DigitValue(Head(s)))

\* std::stoi on a string that starts with an optional sign and a digit
stoi(s) == IF s # <<>> /\ Head(s) = "-" THEN 0 - StoiDigits(Tail(s), 0)
           ELSE StoiDigits(s, 0)

\* ------------------------------------------------------------- messages
\* DCF::DCFMessage as Send fills it in
MakeMessage(buffer, len, remote_node, consoleplayer, ts) ==
    [data |-> SubSeq(buffer, 1, len),
     recipient |-> to_string(remote_node),
     sender |-> to_string(consoleplayer),
     timestamp |-> ts]

\* msg.SerializeToString: the fields in tag order
SerializeToString(msg) ==
    << <<"sender", msg.sender>>, <<"recipient", msg.recipient>>,
       <<"data", msg.data>>, <<"timestamp", msg.timestamp>> >>

ParseOk(s) ==
    /\ Len(s) = 4
    /\ s[1][1] = "sender" /\ s[2][1] = "recipient"
    /\ s[3][1] = "data" /\ s[4][1] = "timestamp"

\* msg.ParseFromString on a string for which ParseOk holds
ParseFromString(s) ==
    [data |-> s[3][2], recipient |-> s[2][2],
     sender |-> s[1][2], timestamp |-> s[4][2]]

\* ------------------------------------------------------------- queues
\* a push that drops the string
QueueDrop(q, s) == q

\* std::queue<std::string>::push
QueuePush(q, s) == Append(q, s)

\* a front that hands out the newest string instead of the oldest
QueueBack(q) == q[Len(q)]

\* std::queue<std::string>::front
QueueFront(q) == Head(q)

\* a pop that removes two strings where there are two
QueuePopTwo(q) == IF Len(q) >= 2 THEN Tail(Tail(q)) ELSE Tail(q)

\* a pop that leaves the string on the queue
QueueKeep(q) == q

\* std::queue<std::string>::pop
QueuePop(q) == Tail(q)

\* ------------------------------------------------------------- threads
\* a Shutdown that joins without asking joinable
joinable_always(th) == TRUE

\* a Shutdown that never joins
joinable_never(th) == FALSE

\* std::thread::joinable
joinable(th) == th = "attached"

\* the -transport argument ParseArgs may see ("": not given)
TransportArgs == {"", "grpc"}

\* a -transport argument that names a transport Init does not set up
OtherTransportArgs == {"udp"}

\* the -peer arguments ParseArgs may see
PeerArgs == {<<>>, <<to_string(2)>>, <<to_string(2), to_string(3)>>,
             <<to_string(2), to_string(2)>>}

Min(a, b) == IF a < b THEN a ELSE b

VARIABLES
    g_dcf_net,        \* the global pointer: "null", "engine", "dangling"
    mainpc,           \* position of LaunchDOOM
    sdpc,             \* position inside Shutdown
    running_,
    poll_thread_,     \* std::thread objects: "none", "attached", "joined"
    redundancy_thread_,
    transport_,
    stub_,            \* "null", "stub", "released"
    peers_,           \* sequence of [address, active, hb_age]
    out_queue_,
    in_queue_,
    pc_poll,          \* position of PollLoop
    pc_red,           \* position of RedundancyLoop
    red_i,            \* index of the peer the for loop is at
    doomcom,
    net_in,           \* frames the transport delivered to this node
    nheartbeats,      \* heartbeats sent so far
    \* history
    pushed,           \* every string pushed on out_queue_, in push order
    transport_log,    \* every request passed to stub_->SendMessage
    popped,           \* every string PollLoop popped from out_queue_
    pollJoins, redJoins, stubReleases,
    uptime,           \* seconds since Init
    resp,             \* per peer: heartbeat responses seen from it
    nsends

vars == <<g_dcf_net, mainpc, sdpc, running_, poll_thread_, redundancy_thread_,
          stub_, peers_, out_queue_, in_queue_, pc_poll, pc_red,
          red_i, doomcom, net_in, pushed,
          transport_log, pollJoins, redJoins, stubReleases, nheartbeats, nsends,
          transport_, uptime, resp, popped>>

engineVars == <<running_, poll_thread_, redundancy_thread_, transport_,
                stub_, peers_, out_queue_, in_queue_>>
pollVars == <<pc_poll>>
redVars == <<pc_red, red_i, nheartbeats>>
hostVars == <<doomcom, nsends>>
mainVars == <<g_dcf_net, mainpc, sdpc>>
histVars == <<pushed, transport_log, popped, pollJoins, redJoins,
              stubReleases, uptime, resp>>
netVars == <<net_in>>

\* the state before LaunchDOOM: no engine, doomcom set up by the host
Init ==
    /\ g_dcf_net = "null"
    /\ mainpc = "launch"
    /\ sdpc = "none"
    /\ running_ = FALSE
    /\ poll_thread_ = "none"
    /\ redundancy_thread_ = "none"
    /\ transport_ = ""
    /\ stub_ = "null"
    /\ peers_ = <<>>
    /\ out_queue_ = <<>>
    /\ in_queue_ = <<>>
    /\ pc_poll = "none"
    /\ pc_red = "none"
    /\ red_i = 1
    /\ \E cp \in ConsolePlayers :
         doomcom = [command |-> NoCommand, remotenode |-> 0, datalength |-> 0,
                    data |-> <<>>, consoleplayer |-> cp]
    /\ net_in = <<>>
    /\ pushed = <<>>
    /\ transport_log = <<>>
    /\ popped = <<>>
    /\ pollJoins = 0 /\ redJoins = 0 /\ stubReleases = 0
    /\ uptime = 0 /\ resp = <<>>
    /\ nheartbeats = 0 /\ nsends = 0

\* ------------------------------------------------------------ operations
\* ParseArgs: the peer table built from the -peer arguments
ParseArgsPeers(args) ==
    [i \in 1..Len(args) |-> [address |-> args[i], active |-> TRUE, hb_age |-> 0]]

\* ParseArgs: the transport, "grpc" when none is given
ParseArgsTransport(arg) == IF arg = "" THEN "grpc" ELSE arg

\* system_clock::now().time_since_epoch().count(): a reading that grows
\* from one Send to the next
SystemClock == Len(pushed)

\* a Send that pushes the string twice
SendTwice(buffer, len, remote_node) ==
    LET msg == MakeMessage(buffer, len, remote_node, doomcom.consoleplayer,
                           SystemClock)
        str == SerializeToString(msg)
    IN  /\ out_queue_' = QueuePush(QueuePush(out_queue_, str), str)
        /\ pushed' = Append(Append(pushed, str), str)

\* DCFNetworking::Send: build the message, serialize it, push it
Send(buffer, len, remote_node) ==
    LET msg == MakeMessage(buffer, len, remote_node, doomcom.consoleplayer,
                           SystemClock)
        str == SerializeToString(msg)
    IN  /\ out_queue_' = QueuePush(out_queue_, str)
        /\ pushed' = Append(pushed, str)

\* LaunchDOOM, lines 204-207: new DCFNetworking() and Init(myargc, myargv),
\* with the -transport argument one of targs
LaunchDOOM_InitFrom(targs) ==
    /\ mainpc = "launch"
    /\ IF g_dcf_net = "null"
       THEN \E args \in PeerArgs, targ \in targs :
              /\ g_dcf_net' = "engine"
              /\ peers_' = ParseArgsPeers(args)
              /\ transport_' = ParseArgsTransport(targ)
              /\ stub_' = IF transport_' = "grpc" THEN "stub" ELSE "null"
              /\ running_' = TRUE
              /\ poll_thread_' = "attached"
              /\ pc_poll' = "check"
              /\ redundancy_thread_' = "attached"
              /\ pc_red' = "check"
              /\ uptime' = 0
              /\ resp' = [i \in 1..Len(args) |-> "none"]
       ELSE UNCHANGED <<g_dcf_net, peers_, transport_, stub_, running_,
                        poll_thread_, pc_poll, redundancy_thread_, pc_red,
                        uptime, resp>>
    /\ mainpc' = "spawn"
    /\ UNCHANGED <<sdpc, out_queue_, in_queue_, red_i, nheartbeats, hostVars, netVars, pushed,
                   transport_log, popped, pollJoins, redJoins, stubReleases>>

\* LaunchDOOM started with the grpc transport, named or by default
LaunchDOOM_Init == LaunchDOOM_InitFrom(TransportArgs)

\* LaunchDOOM started with any -transport argument
LaunchDOOM_InitAnyTransport ==
    LaunchDOOM_InitFrom(TransportArgs \cup OtherTransportArgs)

\* DCFNetworking::Receive, with what NetISR does with its result; req is
\* doomcom as the host left it
Receive(req) ==
    IF in_queue_ # <<>>
    THEN LET str == QueueFront(in_queue_) IN
         /\ in_queue_' = QueuePop(in_queue_)
         /\ IF ParseOk(str)
            THEN LET msg == ParseFromString(str)
                     len == Len(msg.data)
                 IN doomcom' = [req EXCEPT
                        !.data = msg.data \o SubSeq(req.data, len + 1, Len(req.data)),
                        !.remotenode = stoi(msg.sender),
                        !.datalength = len]
            ELSE doomcom' = [req EXCEPT !.remotenode = 0 - 1]
    ELSE /\ doomcom' = [req EXCEPT !.remotenode = 0 - 1]
         /\ UNCHANGED in_queue_

\* what the host writes into doomcom before it raises the interrupt
HostRequests ==
    {[doomcom EXCEPT !.command = CMD_SEND, !.data = p[1],
                     !.datalength = Len(p[1]), !.remotenode = p[2]] : p \in Packets}
    \cup {[doomcom EXCEPT !.command = CMD_GET]}

\* NetISR, lines 221-230, with g_dcf_net pointing to an engine
NetISR_engine ==
    /\ \E req \in HostRequests :
         /\ req.command = CMD_SEND => nsends < MaxSends
         /\ IF req.command = CMD_SEND
            THEN /\ Send(req.data, req.datalength, req.remotenode)
                 /\ doomcom' = req
                 /\ nsends' = nsends + 1
                 /\ UNCHANGED in_queue_
            ELSE IF req.command = CMD_GET
                 THEN /\ Receive(req)
                      /\ UNCHANGED <<out_queue_, pushed, nsends>>
                 ELSE /\ doomcom' = req
                      /\ UNCHANGED <<in_queue_, out_queue_, pushed, nsends>>
    /\ UNCHANGED <<mainVars, running_, poll_thread_, redundancy_thread_,
                   transport_, stub_, peers_, pollVars, redVars, netVars,
                   transport_log, popped, pollJoins, redJoins, stubReleases, uptime,
                   resp>>

\* NetISR, entered while the host program runs
NetISR ==
    /\ mainpc = "spawn"
    /\ g_dcf_net = "engine"
    /\ NetISR_engine

\* the process ends on a fault: no thread and no caller goes on
Fault ==
    /\ mainpc' = "fault"
    /\ sdpc' = "none"
    /\ pc_poll' = "fault"
    /\ pc_red' = "fault"

\* NetISR, entered while LaunchDOOM tears the engine down: the handler
\* uses g_dcf_net as it is (lines 222 and 225 have no test).  While the
\* object lives the call acts on it; through the pointer to the deleted
\* object or the null pointer the call is undefined: the process faults,
\* or the call acts on what the memory still holds (deleted object), or
\* it returns with the engine untouched (null)
NetISR_teardown ==
    /\ mainpc \in {"shutdown", "delete", "reset", "done"}
    /\ IF g_dcf_net = "engine"
       THEN NetISR_engine
       ELSE \E outcome \in {"fault", "proceeds"} :
              IF outcome = "proceeds"
              THEN IF g_dcf_net = "dangling"
                   THEN NetISR_engine
                   ELSE /\ \E req \in HostRequests :
                             /\ req.command = CMD_SEND => nsends < MaxSends
                             /\ doomcom' = req
                             /\ nsends' = IF req.command = CMD_SEND
                                          THEN nsends + 1 ELSE nsends
                        /\ UNCHANGED <<mainVars, engineVars, pollVars,
                                       redVars, netVars, histVars>>
              ELSE /\ Fault
                   /\ \E req \in HostRequests : doomcom' = req
                   /\ UNCHANGED <<g_dcf_net, engineVars, red_i, nheartbeats,
                                  nsends, netVars, histVars>>

\* LaunchDOOM, line 214: the host program has returned
LaunchDOOM_CallShutdown ==
    /\ mainpc = "spawn"
    /\ mainpc' = "shutdown"
    /\ sdpc' = "flag"
    /\ UNCHANGED <<g_dcf_net, engineVars, pollVars, redVars, hostVars, netVars,
                   histVars>>

\* Shutdown, line 81
Shutdown_flag ==
    /\ sdpc = "flag"
    /\ running_' = FALSE
    /\ sdpc' = "join_poll"
    /\ UNCHANGED <<g_dcf_net, mainpc, poll_thread_, redundancy_thread_,
                   transport_, stub_, peers_, out_queue_, in_queue_, pollVars,
                   redVars, hostVars, netVars, histVars>>

\* Shutdown, line 82
Shutdown_join_poll ==
    /\ sdpc = "join_poll"
    /\ IF joinable(poll_thread_)
       THEN /\ pc_poll = "done"
            /\ poll_thread_' = "joined"
            /\ pollJoins' = pollJoins + 1
       ELSE UNCHANGED <<poll_thread_, pollJoins>>
    /\ sdpc' = "join_red"
    /\ UNCHANGED <<g_dcf_net, mainpc, running_, redundancy_thread_, transport_,
                   stub_, peers_, out_queue_, in_queue_, pollVars, redVars,
                   hostVars, netVars, pushed, transport_log, popped, redJoins,
                   stubReleases, uptime, resp>>

\* Shutdown, line 84, and the return
Shutdown_join_red ==
    /\ sdpc = "join_red"
    /\ IF joinable(redundancy_thread_)
       THEN /\ pc_red = "done"
            /\ redundancy_thread_' = "joined"
            /\ redJoins' = redJoins + 1
       ELSE UNCHANGED <<redundancy_thread_, redJoins>>
    /\ sdpc' = "ret"
    /\ UNCHANGED <<g_dcf_net, mainpc, running_, poll_thread_, transport_,
                   stub_, peers_, out_queue_, in_queue_, pollVars, redVars,
                   hostVars, netVars, pushed, transport_log, popped, pollJoins,
                   stubReleases, uptime, resp>>

\* LaunchDOOM, line 215: delete runs the destructor, which calls Shutdown
LaunchDOOM_delete ==
    /\ mainpc = "shutdown"
    /\ sdpc = "ret"
    /\ mainpc' = "delete"
    /\ sdpc' = "flag"
    /\ UNCHANGED <<g_dcf_net, engineVars, pollVars, redVars, hostVars, netVars,
                   histVars>>

\* line 215, after the destructor body: the members are destroyed
LaunchDOOM_destroy ==
    /\ mainpc = "delete"
    /\ sdpc = "ret"
    /\ g_dcf_net' = "dangling"
    /\ IF stub_ = "stub"
       THEN stub_' = "released" /\ stubReleases' = stubReleases + 1
       ELSE UNCHANGED <<stub_, stubReleases>>
    /\ mainpc' = "reset"
    /\ sdpc' = "none"
    /\ UNCHANGED <<running_, poll_thread_, redundancy_thread_, transport_,
                   peers_, out_queue_, in_queue_, pollVars, redVars, hostVars,
                   netVars, pushed, transport_log, popped, pollJoins, redJoins,
                   uptime, resp>>

\* LaunchDOOM, line 216
LaunchDOOM_reset ==
    /\ mainpc = "reset"
    /\ g_dcf_net' = "null"
    /\ mainpc' = "done"
    /\ UNCHANGED <<sdpc, engineVars, pollVars, redVars, hostVars, netVars,
                   histVars>>

\* PollLoop, line 140
PollLoop_check ==
    /\ pc_poll = "check"
    /\ pc_poll' = IF running_ THEN "body" ELSE "done"
    /\ UNCHANGED <<mainVars, engineVars, redVars, hostVars,
                   netVars, histVars>>

PeerIndexes == 1..Len(peers_)

\* a delivery loop that marks the peer active when it answers a heartbeat
PollLoop_body_reactivate ==
    /\ pc_poll = "body"
    /\ IF out_queue_ # <<>>
       THEN /\ stub_ = "stub"
            /\ out_queue_' = QueuePop(out_queue_)
            /\ popped' = Append(popped, QueueFront(out_queue_))
            /\ LET req == ParseFromString(QueueFront(out_queue_)) IN
               /\ transport_log' = Append(transport_log, req)
               /\ \E ok \in BOOLEAN :
                    peers_' = [i \in PeerIndexes |->
                                 IF ok /\ req.data = HEARTBEAT
                                       /\ peers_[i].address = req.recipient
                                 THEN [peers_[i] EXCEPT !.active = TRUE]
                                 ELSE peers_[i]]
       ELSE UNCHANGED <<out_queue_, transport_log, popped, peers_>>
    /\ pc_poll' = "check"
    /\ UNCHANGED <<mainVars, running_, poll_thread_, redundancy_thread_,
                   transport_, stub_, in_queue_, redVars, hostVars,
                   netVars, pushed, pollJoins, redJoins, stubReleases, uptime,
                   resp>>

\* PollLoop, lines 142-163: one turn of the loop body.  wait_for either
\* times out (continue) or pops the front string, which goes to the
\* transport; the transport's response is dropped
PollLoop_body ==
    /\ pc_poll = "body"
    /\ IF out_queue_ # <<>>
       THEN /\ stub_ = "stub"
            /\ out_queue_' = QueuePop(out_queue_)
            /\ popped' = Append(popped, QueueFront(out_queue_))
            /\ LET req == ParseFromString(QueueFront(out_queue_)) IN
               /\ transport_log' = Append(transport_log, req)
               /\ \E ok \in BOOLEAN :
                    LET answered(i) == /\ ok
                                       /\ req.data = HEARTBEAT
                                       /\ peers_[i].address = req.recipient
                    IN resp' = [i \in PeerIndexes |->
                                  IF ~answered(i) \/ resp[i] = "while_inactive"
                                  THEN resp[i]
                                  ELSE IF peers_[i].active THEN "while_active"
                                  ELSE "while_inactive"]
       ELSE UNCHANGED <<out_queue_, transport_log, popped, resp>>
    /\ pc_poll' = "check"
    /\ UNCHANGED <<mainVars, running_, poll_thread_, redundancy_thread_,
                   transport_, stub_, peers_, in_queue_, redVars, hostVars,
                   netVars, pushed, pollJoins, redJoins, stubReleases, uptime>>

\* PollLoop, lines 146-155, when Init left stub_ null: the string is
\* popped and line 155 calls through the null stub_, which is undefined:
\* the process faults, or the call returns and nothing was sent
PollLoop_body_no_stub ==
    /\ pc_poll = "body"
    /\ out_queue_ # <<>>
    /\ stub_ = "null"
    /\ out_queue_' = QueuePop(out_queue_)
    /\ popped' = Append(popped, QueueFront(out_queue_))
    /\ \E outcome \in {"fault", "proceeds"} :
         IF outcome = "proceeds"
         THEN /\ pc_poll' = "check"
              /\ UNCHANGED <<mainVars, pc_red>>
         ELSE /\ Fault
              /\ UNCHANGED g_dcf_net
    /\ UNCHANGED <<running_, poll_thread_, redundancy_thread_, transport_,
                   stub_, peers_, in_queue_, red_i, nheartbeats, hostVars,
                   netVars, pushed, transport_log, pollJoins, redJoins,
                   stubReleases, uptime, resp>>

\* the peers the coming pass sends a heartbeat to
DueHeartbeats == {i \in PeerIndexes : peers_[i].hb_age <= HEARTBEAT_TIMEOUT}

\* RedundancyLoop, lines 169-170
RedundancyLoop_check ==
    /\ pc_red = "check"
    /\ IF running_
       THEN /\ nheartbeats + Cardinality(DueHeartbeats) <= MaxHeartbeats
            /\ red_i' = 1
            /\ pc_red' = "peer"
       ELSE /\ pc_red' = "done"
            /\ UNCHANGED red_i
    /\ UNCHANGED <<mainVars, engineVars, pollVars, nheartbeats, hostVars,
                   netVars, histVars>>

\* RedundancyLoop, lines 171-181: one peer of the for loop
RedundancyLoop_peer ==
    /\ pc_red = "peer"
    /\ red_i <= Len(peers_)
    /\ IF peers_[red_i].hb_age > HEARTBEAT_TIMEOUT
       THEN /\ peers_' = [peers_ EXCEPT ![red_i].active = FALSE]
            /\ UNCHANGED <<out_queue_, pushed, nheartbeats>>
       ELSE /\ Send(HEARTBEAT, 9, stoi(peers_[red_i].address))
            /\ peers_' = [peers_ EXCEPT ![red_i].hb_age = 0]
            /\ nheartbeats' = nheartbeats + 1
    /\ red_i' = red_i + 1
    /\ UNCHANGED <<mainVars, running_, poll_thread_, redundancy_thread_,
                   transport_, stub_, in_queue_, pollVars, pc_red,
                   hostVars, netVars, transport_log, popped, pollJoins, redJoins,
                   stubReleases, uptime, resp>>

\* RedundancyLoop, line 182: sleep_for takes d seconds
RedundancyLoop_sleep ==
    /\ pc_red = "peer"
    /\ red_i > Len(peers_)
    /\ \E d \in SleepTimes :
         /\ peers_' = [i \in PeerIndexes |->
                         [peers_[i] EXCEPT !.hb_age = Min(@ + d, AgeCap)]]
         /\ uptime' = Min(uptime + d, AgeCap)
    /\ pc_red' = "check"
    /\ UNCHANGED <<mainVars, running_, poll_thread_, redundancy_thread_,
                   transport_, stub_, out_queue_, in_queue_, pollVars, red_i,
                   nheartbeats, hostVars, netVars, pushed, transport_log, popped,
                   pollJoins, redJoins, stubReleases, resp>>

\* a transport that hands the frame for this node to the inbound queue
PeerDelivers_inbound ==
    /\ mainpc = "spawn"
    /\ net_in = <<>>
    /\ in_queue_ = <<>>
    /\ \E p \in Packets :
         in_queue_' = Append(in_queue_,
                        SerializeToString(MakeMessage(p[1], Len(p[1]),
                                          doomcom.consoleplayer, p[2], 0)))
    /\ UNCHANGED <<mainVars, running_, poll_thread_, redundancy_thread_,
                   transport_, stub_, peers_, out_queue_, pollVars, redVars,
                   hostVars, histVars, netVars>>

\* a peer's delivery loop hands the transport a frame addressed to this
\* node; the transport holds one such frame at a time
PeerDelivers ==
    /\ mainpc = "spawn"
    /\ net_in = <<>>
    /\ \E p \in Packets :
         net_in' = Append(net_in,
                     SerializeToString(MakeMessage(p[1], Len(p[1]), doomcom.consoleplayer,
                                                   p[2], 0)))
    /\ UNCHANGED <<mainVars, engineVars, pollVars, redVars, hostVars, histVars>>

Next ==
    \/ LaunchDOOM_Init
    \/ NetISR
    \/ LaunchDOOM_CallShutdown
    \/ Shutdown_flag
    \/ Shutdown_join_poll
    \/ Shutdown_join_red
    \/ LaunchDOOM_delete
    \/ LaunchDOOM_destroy
    \/ LaunchDOOM_reset
    \/ PollLoop_check
    \/ PollLoop_body
    \/ RedundancyLoop_check
    \/ RedundancyLoop_peer
    \/ RedundancyLoop_sleep
    \/ PeerDelivers

Spec == Init /\ [][Next]_vars

\* the program with any -transport argument and with NetISR entered at any
\* point from the host program's start on
NextOpen ==
    \/ LaunchDOOM_InitAnyTransport
    \/ NetISR
    \/ NetISR_teardown
    \/ LaunchDOOM_CallShutdown
    \/ Shutdown_flag
    \/ Shutdown_join_poll
    \/ Shutdown_join_red
    \/ LaunchDOOM_delete
    \/ LaunchDOOM_destroy
    \/ LaunchDOOM_reset
    \/ PollLoop_check
    \/ PollLoop_body
    \/ PollLoop_body_no_stub
    \/ RedundancyLoop_check
    \/ RedundancyLoop_peer
    \/ RedundancyLoop_sleep
    \/ PeerDelivers

OpenSpec == Init /\ [][NextOpen]_vars

\* ------------------------------------------- Receive on its own inputs
\* what peers send to this node: <<data, node>>
InPackets == {<< <<7, 8>>, 2 >>, << <<9>>, 3 >>}

\* a string that is not a serialized DCFMessage
Truncated == << <<"sender", to_string(2)>> >>

\* the strings an inbound queue may hold
InFrames ==
    {SerializeToString(MakeMessage(p[1], Len(p[1]), cp, p[2], 0)) :
       p \in InPackets, cp \in ConsolePlayers} \cup {Truncated}

InQueues == UNION {[1..n -> InFrames] : n \in 0..MaxInQueue}

\* a running engine whose inbound queue holds one of InQueues
ReceiveInit ==
    /\ g_dcf_net = "engine"
    /\ mainpc = "spawn"
    /\ sdpc = "none"
    /\ running_ = TRUE
    /\ poll_thread_ = "attached"
    /\ redundancy_thread_ = "attached"
    /\ transport_ = "grpc"
    /\ stub_ = "stub"
    /\ peers_ = <<>>
    /\ out_queue_ = <<>>
    /\ in_queue_ \in InQueues
    /\ pc_poll = "check"
    /\ pc_red = "check"
    /\ red_i = 1
    /\ \E cp \in ConsolePlayers :
         doomcom = [command |-> NoCommand, remotenode |-> 0, datalength |-> 0,
                    data |-> <<>>, consoleplayer |-> cp]
    /\ net_in = <<>>
    /\ pushed = <<>>
    /\ transport_log = <<>>
    /\ popped = <<>>
    /\ pollJoins = 0 /\ redJoins = 0 /\ stubReleases = 0
    /\ uptime = 0 /\ resp = <<>>
    /\ nheartbeats = 0 /\ nsends = 0

\* the host's requests, served by NetISR
ReceiveNext == NetISR

ReceiveSpec == ReceiveInit /\ [][ReceiveNext]_vars

\* the threads run and the calls LaunchDOOM makes return; when the host
\* program returns, what it sends and what peers deliver is not constrained
Fairness ==
    /\ WF_vars(LaunchDOOM_Init)
    /\ WF_vars(PollLoop_check)
    /\ WF_vars(PollLoop_body)
    /\ WF_vars(RedundancyLoop_check)
    /\ WF_vars(RedundancyLoop_peer)
    /\ WF_vars(RedundancyLoop_sleep)
    /\ WF_vars(Shutdown_flag)
    /\ WF_vars(Shutdown_join_poll)
    /\ WF_vars(Shutdown_join_red)
    /\ WF_vars(LaunchDOOM_delete)
    /\ WF_vars(LaunchDOOM_destroy)
    /\ WF_vars(LaunchDOOM_reset)

FairSpec == Init /\ [][Next]_vars /\ Fairness

TypeOK ==
    /\ g_dcf_net \in {"null", "engine", "dangling"}
    /\ running_ \in BOOLEAN
    /\ pc_poll \in {"none", "check", "body", "done", "fault"}
    /\ pc_red \in {"none", "check", "peer", "done", "fault"}
    /\ mainpc \in {"launch", "spawn", "shutdown", "delete", "reset", "done",
                   "fault"}
    /\ sdpc \in {"none", "flag", "join_poll", "join_red", "ret"}

\* ---------------------------------------------------------------- claims
Last(q) == q[Len(q)]

\* the strings the transport has been handed, as they were pushed
SentStrings == [k \in 1..Len(transport_log) |-> SerializeToString(transport_log[k])]

\* C1 (as claimed): every frame enqueued on the outbound queue is passed to
\* the transport exactly once, in FIFO order; stated for the end of the
\* delivery loop: when PollLoop has exited, the transport has seen exactly
\* the pushed frames, in push order
C1_AllDelivered == pc_poll = "done" => SentStrings = pushed

\* C1 (amended): the frames the transport has seen, followed by the frames
\* still queued, are the pushed frames in push order (each frame is sent at
\* most once, FIFO), and a queue that holds frames is eventually drained, so
\* that every pushed frame has been sent, unless the running flag is cleared
\* first
C1_FifoWhileRunning ==
    /\ [](SentStrings \o out_queue_ = pushed)
    /\ (out_queue_ # <<>>) ~> (out_queue_ = <<>> \/ ~running_)

C1_Witness ==
    /\ Len(transport_log) >= 2
    /\ out_queue_ # <<>>
    /\ \E k \in 1..Len(transport_log) : transport_log[k].data # HEARTBEAT
    /\ running_

\* C2: a frame a peer sent to this node, delivered by the transport, is
\* returned by Receive with the same payload bytes and the peer's id as
\* sender: a CMD_GET served while such a frame is there reports it
C2_RoundTrip ==
    [][(net_in # <<>> /\ doomcom.command # CMD_GET /\ doomcom'.command = CMD_GET)
         => LET msg == ParseFromString(Head(net_in)) IN
            /\ doomcom'.remotenode = stoi(msg.sender)
            /\ SubSeq(doomcom'.data, 1, doomcom'.datalength) = msg.data]_vars

\* C3: the Shutdown the destructor runs after LaunchDOOM's Shutdown leaves
\* the engine as the first one left it; no thread is joined twice and the
\* transport stub is released at most once
C3_ShutdownIdempotent ==
    /\ [](pollJoins <= 1 /\ redJoins <= 1 /\ stubReleases <= 1)
    /\ [][(mainpc = "delete" /\ mainpc' = "delete")
            => UNCHANGED <<engineVars, pc_poll, pc_red, pollJoins, redJoins,
                           stubReleases>>]_vars

C3_Witness ==
    /\ mainpc = "delete" /\ sdpc = "ret"
    /\ pollJoins = 1 /\ redJoins = 1
    /\ ~running_

\* C4: a peer from which no heartbeat response was observed within the
\* timeout window is INACTIVE: after a pass of the liveness monitor that
\* started more than HEARTBEAT_TIMEOUT seconds after Init, every peer that
\* never answered a heartbeat is INACTIVE
C4_Demotion ==
    (pc_red = "peer" /\ red_i > Len(peers_) /\ uptime > HEARTBEAT_TIMEOUT)
      => \A i \in PeerIndexes : resp[i] = "none" => ~peers_[i].active

\* C5: the transport is never handed a frame whose recipient is a peer that
\* is INACTIVE at that moment
C5_Reroute ==
    [][transport_log' # transport_log
         => \A i \in PeerIndexes :
              peers_[i].address = Last(transport_log').recipient => peers_[i].active]_vars

\* C6: an INACTIVE peer that answered a heartbeat is made ACTIVE again: when
\* the liveness monitor next visits it, it leaves it ACTIVE
C6_Reactivation ==
    [][(pc_red = "peer" /\ red_i <= Len(peers_) /\ red_i' = red_i + 1
          /\ resp[red_i] = "while_inactive")
         => peers_'[red_i].active]_vars

\* C7: the outbound queue never holds more frames than its capacity
C7_QueueBounded == Len(out_queue_) <= QueueCapacity

\* C8: while every peer is INACTIVE, no frame is placed on the outbound queue
C8_NoRoute ==
    [][(peers_ # <<>> /\ \A i \in PeerIndexes : ~peers_[i].active)
         => pushed' = pushed]_vars

ShutdownCalled == mainpc = "shutdown" /\ sdpc = "flag"

ShutdownReturned ==
    \/ mainpc = "shutdown" /\ sdpc = "ret"
    \/ mainpc \in {"delete", "reset", "done"}

\* C9: a call of Shutdown returns, and once it has returned the running
\* flag is false and both loops have exited and been joined
C9_ShutdownJoins ==
    /\ [](ShutdownReturned =>
            /\ ~running_
            /\ pc_poll = "done" /\ poll_thread_ = "joined"
            /\ pc_red = "done" /\ redundancy_thread_ = "joined")
    /\ (ShutdownCalled ~> ShutdownReturned)

C9_Witness ==
    /\ mainpc = "shutdown" /\ sdpc = "ret"
    /\ pc_poll = "done" /\ pc_red = "done"
    /\ transport_log # <<>>

\* C10: once Shutdown has cleared the running flag, no frame is added to
\* the outbound queue
C10_NoNewWork ==
    [][(~running_ /\ mainpc \in {"shutdown", "delete"}) => pushed' = pushed]_vars

\* C11: when the configured transport is not one Init sets up, Init fails:
\* an engine without a transport handle has its running flag clear and
\* neither thread started
C11_InitFailsWithoutTransport ==
    (g_dcf_net = "engine" /\ stub_ = "null")
      => /\ ~running_
         /\ poll_thread_ = "none" /\ pc_poll = "none"
         /\ redundancy_thread_ = "none" /\ pc_red = "none"

\* the multiset of the strings of a sequence
BagOfSeq(q) == [s \in {q[k] : k \in 1..Len(q)} |->
                  Cardinality({k \in 1..Len(q) : q[k] = s})]

\* C12: the multiset of the frames pushed on the outbound queue is the
\* multiset of the frames popped from it plus the frames still in it
C12_Conservation == BagOfSeq(pushed) = BagOfSeq(popped) (+) BagOfSeq(out_queue_)

C12_Witness ==
    /\ popped # <<>> /\ out_queue_ # <<>>
    /\ nsends >= 1 /\ nheartbeats >= 1
    /\ Len(pushed) >= 3

\* doomcom after the step reports msg: its sender id, its payload length
\* and its payload
Reported(msg) ==
    /\ doomcom'.remotenode = stoi(msg.sender)
    /\ doomcom'.datalength = Len(msg.data)
    /\ SubSeq(doomcom'.data, 1, Len(msg.data)) = msg.data

C14_UniquePeers ==
    \A i, j \in PeerIndexes : peers_[i].address = peers_[j].address => i = j

\* C15: whatever the outcome of the transport's send, a popped frame gets
\* one send attempt, it is not put back on the queue, and the delivery
\* loop goes on with its next turn; no frame is handed to the transport
\* twice
C15_MissedDelivery ==
    /\ [][popped' # popped
            => /\ transport_log' =
                    Append(transport_log, ParseFromString(Last(popped')))
               /\ out_queue_' = Tail(out_queue_)
               /\ pc_poll' = "check"]_vars
    /\ [](\A j, k \in 1..Len(transport_log) :
            transport_log[j] = transport_log[k] => j = k)

\* the send of the first heartbeat to a peer failed, and a later frame went
\* to the transport while the loop kept running
C15_Witness ==
    /\ Len(transport_log) >= 2
    /\ transport_log[1].data = HEARTBEAT
    /\ \E i \in PeerIndexes :
         /\ peers_[i].address = transport_log[1].recipient
         /\ resp[i] = "none"
         /\ \A k \in 2..Len(transport_log) :
              transport_log[k].recipient # peers_[i].address
    /\ running_ /\ pc_poll = "check"

\* C16: NetISR calls Send or Receive only on a fully initialized engine
\* that is running: a step in which the handler served a CMD_SEND or a
\* CMD_GET starts with g_dcf_net pointing to a live engine whose running
\* flag is set
C16_AtomicTeardown ==
    [][((doomcom' # doomcom \/ nsends' # nsends)
          /\ doomcom'.command \in {CMD_SEND, CMD_GET})
         => g_dcf_net = "engine" /\ running_]_vars

\* C17: every turn of the delivery loop ends with the inbound poll phase:
\* a frame the transport holds for this node when the turn is taken is on
\* the inbound queue after it, also when the outbound queue was empty
C17_BothPhases ==
    [][(pc_poll = "body" /\ pc_poll' = "check" /\ net_in # <<>>)
         => in_queue_' # in_queue_]_vars

\* C18: after Init the peer table is written by RedundancyLoop only: a
\* step that changes peers_ is a step of RedundancyLoop, and the steps of
\* NetISR (Send, Receive), PollLoop and Shutdown leave peers_ as it is
C18_PeerTableWriters ==
    [][mainpc # "launch"
         => /\ peers_' # peers_ => (pc_red' # pc_red \/ red_i' # red_i)
            /\ (doomcom' # doomcom \/ nsends' # nsends
                  \/ in_queue_' # in_queue_ \/ pc_poll' # pc_poll
                  \/ popped' # popped \/ sdpc' # sdpc)
                 /\ pc_red' = pc_red /\ red_i' = red_i
               => peers_' = peers_]_vars

C18_Witness ==
    /\ \E i \in PeerIndexes : ~peers_[i].active
    /\ transport_log # <<>> /\ nsends >= 1
    /\ doomcom.command = CMD_GET
    /\ sdpc = "ret"

\* C19: the inbound queue is empty in every reachable state, and doomcom
\* after a CMD_GET has remotenode -1, whatever peers have sent
C19_InboundEmpty ==
    /\ in_queue_ = <<>>
    /\ doomcom.command = CMD_GET => doomcom.remotenode = 0 - 1

C19_Witness ==
    /\ net_in # <<>>
    /\ doomcom.command = CMD_GET /\ doomcom.remotenode = 0 - 1
    /\ pc_poll = "check" /\ transport_log # <<>>

\* C20: in a pass of RedundancyLoop a peer whose last heartbeat is at most
\* 10 seconds old gets exactly one heartbeat frame pushed and its last
\* heartbeat set to now, whatever it answered; an older peer is marked
\* inactive, gets no frame and keeps its last heartbeat; no other step
\* renews a last heartbeat
C20_HeartbeatPass ==
    /\ [][(pc_red = "peer" /\ red_i' = red_i + 1)
            => /\ IF peers_[red_i].hb_age <= 10
                  THEN /\ Len(pushed') = Len(pushed) + 1
                       /\ SubSeq(pushed', 1, Len(pushed)) = pushed
                       /\ ParseFromString(Last(pushed')).data = HEARTBEAT
                       /\ ParseFromString(Last(pushed')).recipient
                            = peers_[red_i].address
                       /\ out_queue_' = Append(out_queue_, Last(pushed'))
                       /\ peers_'[red_i].hb_age = 0
                       /\ peers_'[red_i].active = peers_[red_i].active
                  ELSE /\ ~peers_'[red_i].active
                       /\ pushed' = pushed /\ out_queue_' = out_queue_
                       /\ peers_'[red_i].hb_age = peers_[red_i].hb_age
               /\ \A j \in PeerIndexes \ {red_i} : peers_'[j] = peers_[j]]_vars
    /\ [][(\E i \in PeerIndexes : peers_'[i].hb_age < peers_[i].hb_age)
            => /\ Len(pushed') = Len(pushed) + 1
               /\ ParseFromString(Last(pushed')).data = HEARTBEAT]_vars

C20_Witness ==
    /\ \E i \in PeerIndexes :
         /\ ~peers_[i].active /\ peers_[i].hb_age > 10
         /\ resp[i] = "while_active"
    /\ nheartbeats >= 2
    /\ pc_red = "peer" /\ red_i > Len(peers_)

====
